---- MODULE Spec2Model ----
(***************************************************************************)
(* Model of the LossLandscape component (src/unnamed/part_001): the wave   *)
(* scheduler, the spawn batch, the particle update loop and the click      *)
(* handler, as driven by the requestAnimationFrame loop `animate`.         *)
(*                                                                         *)
(* Numbers are fixed point.  Time is counted in whole time units, lengths  *)
(* in grid cells, velocities in units of VELOCITY_THRESHOLD, mesh scale in *)
(* hundredths (SCALE_ONE = 1.0).  Configuration values that would make the *)
(* state space unmanageable are scaled down; each such definition says so. *)
(***************************************************************************)
EXTENDS Integers, Sequences, FiniteSets, TLC

(* ---------------- bounds of the model ---------------- *)
\* the simulation clock is explored up to this value
MaxTime == 13
\* the simulation clock is explored up to this value when no click is made
MaxWaveTime == 20
\* number of clicks explored
MaxClicks == 1
\* number of candidate draws explored inside one tick
MaxDraws == 3
\* the direct calls take their coordinates x and z in -MaxCoord .. MaxCoord,
\* the terrain extent and the points beyond each of its sides
MaxCoord == 3

\* the wall-clock durations of a frame that are explored, in time units
FrameDurations == {1, 2}
\* the values of performance.now() at mount that are explored
MountTimes == {0, 1}

(* ---------------- VISUAL_CONFIG ---------------- *)
\* TERRAIN.WIDTH (2000 in the source, scaled)
WIDTH == 4
\* TERRAIN.DEPTH (2000 in the source, scaled)
DEPTH == 4
\* PHYSICS.GRADIENT_MAP_RESOLUTION (512 in the source, scaled)
RESOLUTION == 5
\* TERRAIN.WIREFRAME_OPACITY, in hundredths
WIREFRAME_OPACITY == 7
\* WAVES.MAX_SWELL_OPACITY, in hundredths
MAX_SWELL_OPACITY == 22
\* WAVES.FLASH_DECAY, in hundredths (0.15 in the source, scaled)
FLASH_DECAY == 50
\* WAVES.FIRST_WAVE_DELAY, seconds
FIRST_WAVE_DELAY == 1
\* WAVES.BUFFER_TIME, seconds
BUFFER_TIME == 1
\* WAVES.SWELL_TIME, seconds
SWELL_TIME == 2
\* WAVES.MAX_WAVE_INTERVAL (15 s in the source, scaled)
MAX_WAVE_INTERVAL == 3
\* WAVES.PARTICLES_PER_WAVE (1000 in the source, scaled)
PARTICLES_PER_WAVE == 2
\* WAVES.BATCH_SIZE (20 in the source, scaled)
BATCH_SIZE == 1
\* WAVES.VELOCITY_THRESHOLD (0.001; the velocity unit of the model)
VELOCITY_THRESHOLD == 1
\* the literal 100 of `p.age > 100` (scaled)
MIN_AGE == 2
\* WAVES.FADE_OUT_SPEED in percent (0.02 in the source, scaled)
FADE_OUT_SPEED == 75
\* WAVES.MIN_SPAWN_HEIGHT
MIN_SPAWN_HEIGHT == 0
\* PHYSICS.MOMENTUM in percent
MOMENTUM == 92
\* PHYSICS.LEARNING_RATE as 1/LEARNING_RATE_DEN (0.002 in the source, scaled)
LEARNING_RATE_DEN == 2
\* PARTICLES.TRAIL_LENGTH (150 in the source, scaled)
TRAIL_LENGTH == 3
\* PARTICLES.HEIGHT_OFFSET
HEIGHT_OFFSET == 5
\* PARTICLES.SPAWN_HEIGHT_OFFSET
SPAWN_HEIGHT_OFFSET == 2
\* mesh scale 1.0 in hundredths
SCALE_ONE == 100
\* the literal 0.01 of `p.mesh.scale.x < 0.01`, in hundredths
REMOVE_SCALE == 1
\* CAMERA.INITIAL_POS.y (160 in the source, scaled)
CAMERA_Y == 8
\* CAMERA.INITIAL_POS.z (300 in the source, scaled)
CAMERA_INITIAL_Z == 0

(* ---------------- arithmetic ---------------- *)
Abs(a) == IF a < 0 THEN -a ELSE a

Min(a, b) == IF a < b THEN a ELSE b

Max(a, b) == IF a > b THEN a ELSE b

\* a / b rounded toward zero: the fixed-point image of a float product
Trunc(a, b) == IF a >= 0 THEN a \div b ELSE -((-a) \div b)

\* THREE.MathUtils.clamp
Clamp(v, lo, hi) == Max(lo, Min(hi, v))

\* THREE.MathUtils.lerp(a, b, num/den)
Lerp(a, b, num, den) == a + Trunc((b - a) * num, den)

(* ---------------- state ---------------- *)
VARIABLES
  pc,                 \* where animate is: "idle" between frames, "spawn" in the
                      \* spawn batch loop
  now,                \* performance.now(), in time units
  lastFrameTimeRef,   \* lastFrameTimeRef.current
  timeRef,            \* timeRef.current, the accumulated simulation clock
  frameScale,         \* frameScale of the current frame
  waveStateRef,       \* waveStateRef.current
  stateStartTimeRef,  \* stateStartTimeRef.current
  lastWaveTimeRef,    \* lastWaveTimeRef.current
  spawnQueueRef,      \* spawnQueueRef.current
  particlesRef,       \* particlesRef.current, in array order
  gradientMapRef,     \* gradientMapRef.current: "null", or "built" once it
                      \* holds the result of buildGradientMap
  toSpawn,            \* toSpawn of the current spawn batch
  loopI,              \* the loop counter i of the spawn batch
  draws,              \* history: candidate draws made in the current frame
  nextId,             \* history: identity given to the next particle created
  removedIds,         \* history: identities of the particles removed so far
  lastRemoved,        \* history: identities of the particles removed by the
                      \* particle loop of the latest frame
  wireframeOpacity,   \* wireframe.material.opacity, 0 while there is no
                      \* wireframe yet
  clicks,             \* history: clicks handled so far
  placedInWave,       \* history: placements made for the current wave
  activeSince,        \* history: performance.now() when ACTIVE was entered
  waitingSince,       \* history: simulation clock when ACTIVE -> WAITING fired,
                      \* -1 while the state is not such a WAITING
  waveCount,          \* history: SWELLING -> ACTIVE transitions so far
  lastPlacedAt,       \* history: performance.now() of the latest placement of
                      \* the current wave, -1 while it has none
  lastSettle,         \* history: why the latest frame left ACTIVE: "stopped",
                      \* "timeout", "both", or "none" if it did not
  phase,              \* the component: "constructed" (refs created, effect
                      \* not yet run), "mounted", or "unmounted" (cleanup run)
  disposed,           \* the resources on which dispose() has been called
  probe,              \* the latest direct call of lossFunction,
                      \* buildGradientMap or gradient, with its result
  remembered          \* history: an earlier such call

vars ==
  << pc, now, lastFrameTimeRef, timeRef, frameScale, waveStateRef,
     stateStartTimeRef, lastWaveTimeRef, spawnQueueRef, particlesRef,
     gradientMapRef, toSpawn, loopI, draws, nextId, removedIds, lastRemoved, wireframeOpacity, clicks,
     placedInWave, activeSince, waitingSince, waveCount, lastPlacedAt,
     lastSettle, phase, disposed, probe, remembered >>

\* the variables of the direct calls
fieldVars == << probe, remembered >>

\* the refs of the component and their history
componentVars ==
  << pc, now, lastFrameTimeRef, timeRef, frameScale, waveStateRef,
     stateStartTimeRef, lastWaveTimeRef, spawnQueueRef, particlesRef,
     gradientMapRef, toSpawn, loopI, draws, nextId, removedIds, lastRemoved, wireframeOpacity, clicks,
     placedInWave, activeSince, waitingSince, waveCount, lastPlacedAt,
     lastSettle, phase, disposed >>

(* ---------------- height field ---------------- *)
\* The elevations of the model's terrain, one row per z = -2 .. 2 and one
\* column per x = -2 .. 2: a plain at z = -2, a ridge at z = -1 and, for
\* z >= 0, a valley along x = 0 whose floor lies below MIN_SPAWN_HEIGHT.
\* It stands for the seeded noise of lossFunction.
TerrainRows ==
  << << 1, 1, 1, 1, 1 >>,
     << 5, 5, 5, 5, 5 >>,
     << -1, -5, -6, -5, -1 >>,
     << -1, -5, -6, -5, -1 >>,
     << -1, -5, -6, -5, -1 >> >>

\* variant: the elevation is served from the latest direct call whenever that
\* call had the same x (a one-entry cache keyed on x alone)
lossFunctionCached(x, z) ==
  IF probe.op = "height" /\ probe.x = x
  THEN probe.value
  ELSE TerrainRows[Clamp(z, -2, 2) + 3][Clamp(x, -2, 2) + 3]

\* lossFunction(x, z): deterministic, defined for every (x, z); outside the
\* sampled rows the nearest sampled elevation continues
lossFunction(x, z) ==
  TerrainRows[Clamp(z, -2, 2) + 3][Clamp(x, -2, 2) + 3]

(* ---------------- gradient map ---------------- *)
MIN_X == -(WIDTH \div 2)

MAX_X == WIDTH \div 2

MIN_Z == -(DEPTH \div 2)

MAX_Z == DEPTH \div 2

\* the step h of the central difference (0.05 in the source, scaled)
GRADIENT_STEP == 1

\* A JavaScript number: a finite value n, or NaN, Infinity, -Infinity (n is
\* 0 for these three).
Finite(n) == [kind |-> "finite", n |-> n]

NaN == [kind |-> "NaN", n |-> 0]

PosInfinity == [kind |-> "Infinity", n |-> 0]

NegInfinity == [kind |-> "-Infinity", n |-> 0]

\* isFinite(v)
isFinite(v) == v.kind = "finite"

\* a - b on JavaScript numbers
Difference(a, b) ==
  IF a.kind = "NaN" \/ b.kind = "NaN" THEN NaN
  ELSE IF isFinite(a) /\ isFinite(b) THEN Finite(a.n - b.n)
  ELSE IF ~isFinite(a) /\ a.kind = b.kind THEN NaN
  ELSE IF ~isFinite(a) THEN a
  ELSE IF b.kind = "Infinity" THEN NegInfinity
  ELSE PosInfinity

\* the central difference (hi - lo) / (2 * h)
CentralDifference(hi, lo, h) ==
  IF isFinite(Difference(hi, lo)) THEN Finite(Trunc(Difference(hi, lo).n, 2 * h))
  ELSE Difference(hi, lo)

\* variant: the difference is stored as it is
GradientEntryUnguarded(hi, lo, h) == CentralDifference(hi, lo, h)

\* dxMap[idx] = isFinite(dx) ? dx : 0, and the same for dzMap
GradientEntry(hi, lo, h) ==
  IF isFinite(CentralDifference(hi, lo, h)) THEN CentralDifference(hi, lo, h)
  ELSE Finite(0)

\* buildGradientMap: central differences of lossFunction at every grid node
buildGradientMap ==
  LET stepX == (MAX_X - MIN_X) \div (RESOLUTION - 1)
      stepZ == (MAX_Z - MIN_Z) \div (RESOLUTION - 1)
      h == GRADIENT_STEP
      NodeX(idx) == MIN_X + (idx % RESOLUTION) * stepX
      NodeZ(idx) == MIN_Z + (idx \div RESOLUTION) * stepZ
  IN [dxMap |-> [idx \in 0 .. RESOLUTION * RESOLUTION - 1 |->
                   GradientEntry(Finite(lossFunction(NodeX(idx) + h, NodeZ(idx))),
                                 Finite(lossFunction(NodeX(idx) - h, NodeZ(idx))),
                                 h).n],
      dzMap |-> [idx \in 0 .. RESOLUTION * RESOLUTION - 1 |->
                   GradientEntry(Finite(lossFunction(NodeX(idx), NodeZ(idx) + h)),
                                 Finite(lossFunction(NodeX(idx), NodeZ(idx) - h)),
                                 h).n]]

\* variant: the grid coordinates are floored without the clamp
GradientCellUnclamped(x, z) ==
  LET gxN == (x - MIN_X) * (RESOLUTION - 1)
      gzN == (z - MIN_Z) * (RESOLUTION - 1)
      x0 == gxN \div (MAX_X - MIN_X)
      z0 == gzN \div (MAX_Z - MIN_Z)
  IN [x0 |-> x0, x1 |-> x0 + 1, z0 |-> z0, z1 |-> z0 + 1,
      txN |-> gxN - x0 * (MAX_X - MIN_X),
      tzN |-> gzN - z0 * (MAX_Z - MIN_Z)]

\* the grid cell of gradient(x, z): x0, z0 and the fractions tx, tz, the
\* fractions as numerators over (MAX_X - MIN_X) and (MAX_Z - MIN_Z)
GradientCell(x, z) ==
  LET gxN == (x - MIN_X) * (RESOLUTION - 1)
      gzN == (z - MIN_Z) * (RESOLUTION - 1)
      x0 == Clamp(gxN \div (MAX_X - MIN_X), 0, RESOLUTION - 2)
      z0 == Clamp(gzN \div (MAX_Z - MIN_Z), 0, RESOLUTION - 2)
  IN [x0 |-> x0, x1 |-> x0 + 1, z0 |-> z0, z1 |-> z0 + 1,
      txN |-> gxN - x0 * (MAX_X - MIN_X),
      tzN |-> gzN - z0 * (MAX_Z - MIN_Z)]

\* gradient(x, z): bilinear interpolation of the map, {0, 0} while the ref
\* is null.  ref is "null" or "built"; once built, the ref holds the object
\* buildGradientMap returned, which nothing writes.
gradient(ref, x, z) ==
  IF ref = "null" THEN [dx |-> 0, dz |-> 0]
  ELSE
    LET c == GradientCell(x, z)
        map == buildGradientMap
        W == MAX_X - MIN_X
        D == MAX_Z - MIN_Z
        sample(array) ==
          Trunc((W - c.txN) * (D - c.tzN) * array[c.z0 * RESOLUTION + c.x0]
                + c.txN * (D - c.tzN) * array[c.z0 * RESOLUTION + c.x1]
                + (W - c.txN) * c.tzN * array[c.z1 * RESOLUTION + c.x0]
                + c.txN * c.tzN * array[c.z1 * RESOLUTION + c.x1], W * D)
    IN [dx |-> sample(map.dxMap), dz |-> sample(map.dzMap)]

(* ---------------- particles ---------------- *)
\* spawnParticle(x, z, overrideY): the record pushed onto particlesRef, with
\* the mesh scale and the trail buffer it owns; byClick is history
spawnParticle(id, x, z, overrideY, byClick) ==
  LET groundHeight == overrideY
      spawnY == groundHeight + SPAWN_HEIGHT_OFFSET
  IN [id |-> id, x |-> x, z |-> z, vx |-> 0, vz |-> 0, age |-> 0,
      isFading |-> FALSE, scale |-> SCALE_ONE,
      trail |-> [i \in 1 .. TRAIL_LENGTH |-> << x, spawnY, -z >>],
      byClick |-> byClick, fadeTicks |-> 0, flagScale |-> 0]

\* the live particles that are not fading
activeParticles(ps) == { i \in 1 .. Len(ps) : ~ps[i].isFading }

\* speed < VELOCITY_THRESHOLD, with speed = sqrt(vx^2 + vz^2)
BelowThreshold(p) ==
  p.vx * p.vx + p.vz * p.vz < VELOCITY_THRESHOLD * VELOCITY_THRESHOLD

\* allParticlesStopped of animate
allParticlesStopped(ps, queue) ==
  /\ ~(queue > 0)
  /\ activeParticles(ps) # {}
  /\ \A i \in activeParticles(ps) : BelowThreshold(ps[i]) /\ ps[i].age > MIN_AGE

(* ---------------- wave state machine ---------------- *)
\* waveTimedOut: currentTime here is performance.now() / 1000
waveTimedOut(tWall, lastWave) == tWall - lastWave > MAX_WAVE_INTERVAL

\* variant: only the particles that have come to rest are flagged
FlagStopped(p) ==
  IF p.isFading \/ ~BelowThreshold(p) THEN p
  ELSE [p EXCEPT !.isFading = TRUE, !.fadeTicks = 0, !.flagScale = p.scale]

\* p.isFading = true, with the history of the flagging
Flag(p) ==
  IF p.isFading THEN p
  ELSE [p EXCEPT !.isFading = TRUE, !.fadeTicks = 0, !.flagScale = p.scale]

\* variant: ACTIVE -> WAITING without the test on the spawn queue
ActiveToWaitingAnyQueue(w, tWall, lastWave) ==
  IF /\ w.state = "ACTIVE"
     /\ (allParticlesStopped(w.ps, 0) \/ waveTimedOut(tWall, lastWave))
  THEN [w EXCEPT !.state = "WAITING", !.start = tWall, !.settled = TRUE,
                 !.why = "timeout",
                 !.ps = [i \in 1 .. Len(w.ps) |-> Flag(w.ps[i])]]
  ELSE w

\* variant: ACTIVE -> WAITING only when the particles have stopped and the
\* wave has timed out
ActiveToWaitingBoth(w, tWall, lastWave) ==
  IF /\ w.state = "ACTIVE"
     /\ w.queue = 0
     /\ (allParticlesStopped(w.ps, w.queue) /\ waveTimedOut(tWall, lastWave))
  THEN [w EXCEPT !.state = "WAITING", !.start = tWall, !.settled = TRUE,
                 !.why = "both",
                 !.ps = [i \in 1 .. Len(w.ps) |-> Flag(w.ps[i])]]
  ELSE w

\* ACTIVE -> WAITING.  w holds the refs (and, as history, which transitions
\* fired and why); tWall is the inner currentTime (performance.now() / 1000)
\* that shadows the simulation clock.
ActiveToWaiting(w, tWall, lastWave) ==
  IF /\ w.state = "ACTIVE"
     /\ w.queue = 0
     /\ (allParticlesStopped(w.ps, w.queue) \/ waveTimedOut(tWall, lastWave))
  THEN [w EXCEPT !.state = "WAITING", !.start = tWall, !.settled = TRUE,
                 !.why = IF ~waveTimedOut(tWall, lastWave) THEN "stopped"
                         ELSE IF allParticlesStopped(w.ps, w.queue) THEN "both"
                         ELSE "timeout",
                 !.ps = [i \in 1 .. Len(w.ps) |-> Flag(w.ps[i])]]
  ELSE w

\* variant: the spawn queue is loaded when the swell begins
WaitingToSwellingLoaded(w, tSim) ==
  IF w.state = "WAITING" /\ tSim - w.start > BUFFER_TIME
  THEN [w EXCEPT !.state = "SWELLING", !.start = tSim,
                 !.queue = PARTICLES_PER_WAVE]
  ELSE w

\* WAITING -> SWELLING.  tSim is the outer currentTime (timeRef.current).
WaitingToSwelling(w, tSim) ==
  IF w.state = "WAITING" /\ tSim - w.start > BUFFER_TIME
  THEN [w EXCEPT !.state = "SWELLING", !.start = tSim]
  ELSE w

\* variant: the release also waits for the particle list to be empty
SwellingToActiveWhenEmpty(w, tSim) ==
  IF w.state = "SWELLING" /\ tSim - w.start > SWELL_TIME /\ Len(w.ps) = 0
  THEN [w EXCEPT !.state = "ACTIVE", !.queue = PARTICLES_PER_WAVE,
                 !.released = TRUE]
  ELSE w

\* SWELLING -> ACTIVE
SwellingToActive(w, tSim) ==
  IF w.state = "SWELLING" /\ tSim - w.start > SWELL_TIME
  THEN [w EXCEPT !.state = "ACTIVE", !.queue = PARTICLES_PER_WAVE,
                 !.released = TRUE]
  ELSE w

\* the three transitions of one frame, in the order of the code
WaveMachine(ps, queue, state, start, tSim, tWall, lastWave) ==
  SwellingToActive(
    WaitingToSwelling(
      ActiveToWaiting([state |-> state, start |-> start, queue |-> queue,
                       ps |-> ps, settled |-> FALSE, released |-> FALSE,
                       why |-> "none"],
                      tWall, lastWave),
      tSim),
    tSim)

(* ---------------- particle update ---------------- *)
\* floor of the square root
RECURSIVE ISqrtFrom(_, _)
ISqrtFrom(n, r) == IF (r + 1) * (r + 1) > n THEN r ELSE ISqrtFrom(n, r + 1)

\* speed = Math.sqrt(vx * vx + vz * vz), rounded down
Speed(p) == ISqrtFrom(p.vx * p.vx + p.vz * p.vz, 0)

\* variant: the product is not written back to the mesh scale
ShrinkNot(scale) == scale

\* mesh.scale.multiplyScalar(1.0 - FADE_OUT_SPEED)
Shrink(scale) == (scale * (100 - FADE_OUT_SPEED)) \div 100

\* the fade collapse of the trail: every point but the head moves 0.15 of
\* the way to the point ahead of it, from the tail down to slot 1
CollapseTrail(trail) ==
  [j \in 1 .. Len(trail) |->
     IF j = 1 THEN trail[1]
     ELSE << Lerp(trail[j][1], trail[j - 1][1], 15, 100),
             Lerp(trail[j][2], trail[j - 1][2], 15, 100),
             Lerp(trail[j][3], trail[j - 1][3], 15, 100) >>]

\* variant: the head is pushed in front without dropping the tail
ShiftTrailGrow(trail, head) == << head >> \o trail

\* variant: the copy loop runs from slot 1 up, so every later slot takes the
\* old slot 0
ShiftTrailAscending(trail, head) ==
  [j \in 1 .. Len(trail) |-> IF j = 1 THEN head ELSE trail[1]]

\* the moving window: slot j takes slot j - 1, slot 0 takes the head
ShiftTrail(trail, head) ==
  [j \in 1 .. Len(trail) |-> IF j = 1 THEN head ELSE trail[j - 1]]

\* staging: every slot is locked to the head
LockTrail(trail, head) == [j \in 1 .. Len(trail) |-> head]

\* variant: the momentum term is multiplied by frameScale as well
PhysicsScaledMomentum(p, map, fs) ==
  LET grad == gradient(map, p.x, p.z)
      vx == Trunc(p.vx * MOMENTUM * fs, 100) - Trunc(grad.dx * fs, LEARNING_RATE_DEN)
      vz == Trunc(p.vz * MOMENTUM * fs, 100) - Trunc(grad.dz * fs, LEARNING_RATE_DEN)
  IN [p EXCEPT !.vx = vx, !.vz = vz, !.x = p.x + vx * fs, !.z = p.z + vz * fs]

\* the physics step of a particle that is neither fading nor staging
Physics(p, map, fs) ==
  LET grad == gradient(map, p.x, p.z)
      vx == Trunc(p.vx * MOMENTUM, 100) - Trunc(grad.dx * fs, LEARNING_RATE_DEN)
      vz == Trunc(p.vz * MOMENTUM, 100) - Trunc(grad.dz * fs, LEARNING_RATE_DEN)
  IN [p EXCEPT !.vx = vx, !.vz = vz, !.x = p.x + vx * fs, !.z = p.z + vz * fs]

\* finalScale = baseScale * lossScaleFactor in hundredths.  The exponents
\* 1.2 and SCALE_DISTRIBUTION_POWER = 2.5 of the source are 1 and 2 here.
FinalScale(p, newY) ==
  LET speedFactor == Min((Speed(p) * 100) \div 150, 100)
      normalizedLoss == Clamp(((newY + 20) * 100) \div 60, 0, 100)
      lossScaleFactor ==
        Clamp(100 + ((100 - normalizedLoss) * (100 - normalizedLoss) * 3) \div 100,
              100, 2000)
      baseScale == 100 + speedFactor \div 2
  IN (baseScale * lossScaleFactor) \div 100

\* variant: the trail window moves on while the particle is staging
TrailUpdateNoLock(p, head, queue) ==
  IF p.isFading THEN CollapseTrail(p.trail) ELSE ShiftTrail(p.trail, head)

\* section 4 of the loop body: the trail of p with the head at its new place
TrailUpdate(p, head, queue) ==
  IF p.isFading THEN CollapseTrail(p.trail)
  ELSE IF queue = 0 THEN ShiftTrail(p.trail, head)
  ELSE LockTrail(p.trail, head)

\* the end of the loop body: the fading shrink, or the mesh scale eased
\* towards finalScale; q is p after the physics step
ScaleUpdate(p, q, newY, shrunk) ==
  IF p.isFading THEN Shrink(shrunk)
  ELSE Lerp(shrunk, FinalScale(q, newY), IF Speed(q) < 10 THEN 2 ELSE 10, 100)

\* the loop body after the physics step, with newY the height of the mesh
PlaceParticle(p, q, newY, shrunk, queue) ==
  [q EXCEPT !.age = p.age + 1,
            !.trail = TrailUpdate(p, << q.x, newY, -q.z >>, queue),
            !.scale = ScaleUpdate(p, q, newY, shrunk),
            !.fadeTicks = IF p.isFading THEN p.fadeTicks + 1 ELSE 0]

\* newY = lossFunction(p.x, p.z) + HEIGHT_OFFSET
MoveParticle(p, q, shrunk, queue) ==
  PlaceParticle(p, q, lossFunction(q.x, q.z) + HEIGHT_OFFSET, shrunk, queue)

\* variant: the physics step is guarded by the spawn queue alone
UpdateParticleAlways(p, shrunk, queue, map, fs) ==
  MoveParticle(p, IF queue = 0 THEN Physics(p, map, fs) ELSE p, shrunk, queue)

\* the body of the particle loop for a particle that stays in the list:
\* shrunk is the mesh scale after the fade block; physics runs only for a
\* particle that is not fading while the spawn queue is empty
UpdateParticle(p, shrunk, queue, map, fs) ==
  MoveParticle(p, IF ~p.isFading /\ queue = 0 THEN Physics(p, map, fs) ELSE p,
               shrunk, queue)

\* variant: splice(i + 1, 1), which removes the neighbour or nothing
SpliceNext(ps, i) ==
  IF i + 1 > Len(ps) THEN ps
  ELSE [j \in 1 .. Len(ps) - 1 |-> IF j < i + 1 THEN ps[j] ELSE ps[j + 1]]

\* particlesRef.current.splice(i, 1)
Splice(ps, i) == [j \in 1 .. Len(ps) - 1 |-> IF j < i THEN ps[j] ELSE ps[j + 1]]

\* variant: the loop runs from index 0 up, so the particle that moves into
\* the place of a removed one is passed over
RECURSIVE ParticleLoopForward(_, _, _, _, _, _)
ParticleLoopForward(ps, gone, i, queue, map, fs) ==
  IF Len(ps) + Cardinality(gone) - i + 1 > Len(ps) THEN [ps |-> ps, gone |-> gone]
  ELSE
    LET k == Len(ps) + Cardinality(gone) - i + 1
        p == ps[k]
        shrunk == IF p.isFading THEN Shrink(p.scale) ELSE p.scale
    IN IF p.isFading /\ shrunk < REMOVE_SCALE
       THEN ParticleLoopForward(Splice(ps, k), gone \cup {p.id}, i - 1, queue, map, fs)
       ELSE ParticleLoopForward([ps EXCEPT ![k] = UpdateParticle(p, shrunk, queue, map, fs)],
                                gone, i - 1, queue, map, fs)

\* the loop `for (i = length - 1; i >= 0; i--)` from index i down; the
\* result holds the list and the identities removed
RECURSIVE ParticleLoop(_, _, _, _, _, _)
ParticleLoop(ps, gone, i, queue, map, fs) ==
  IF i < 1 THEN [ps |-> ps, gone |-> gone]
  ELSE
    LET p == ps[i]
        shrunk == IF p.isFading THEN Shrink(p.scale) ELSE p.scale
    IN IF p.isFading /\ shrunk < REMOVE_SCALE
       THEN ParticleLoop(Splice(ps, i), gone \cup {p.id}, i - 1, queue, map, fs)
       ELSE ParticleLoop([ps EXCEPT ![i] = UpdateParticle(p, shrunk, queue, map, fs)],
                         gone, i - 1, queue, map, fs)

(* ---------------- spawn-site selection ---------------- *)
\* cameraRef.current.position as animate sets it (ZOOM_STEER_STRENGTH = 0)
CameraPos == [x |-> 0, y |-> CAMERA_Y, z |-> DEPTH \div 2 - CAMERA_INITIAL_Z]

\* What ray.intersectPlane(groundPlane) can return for a biased random
\* screen point: no hit, or a point of the ground plane.  One candidate per
\* outcome of the site validation.
CandidateHits ==
  { [hit |-> FALSE, x |-> 0, z |-> 0],
    [hit |-> TRUE, x |-> 3, z |-> 0],
    [hit |-> TRUE, x |-> 0, z |-> 0],
    [hit |-> TRUE, x |-> 0, z |-> -2],
    [hit |-> TRUE, x |-> 2, z |-> -1] }

\* `hit && Math.abs(hit.x) <= WIDTH / 2 && Math.abs(hit.z) <= DEPTH / 2`
InBounds(c) == c.hit /\ Abs(c.x) * 2 <= WIDTH /\ Abs(c.z) * 2 <= DEPTH

\* `realHeight < MIN_SPAWN_HEIGHT`
TooLow(c) == lossFunction(c.x, c.z) < MIN_SPAWN_HEIGHT

\* the line-of-sight loop `for (t = 0.3; t < 1.0; t += 0.3)`
isVisible(c) ==
  LET realHeight == lossFunction(c.x, c.z)
  IN \A k \in 1 .. 3 :
       ~(lossFunction(Lerp(CameraPos.x, c.x, 3 * k, 10),
                      Lerp(CameraPos.z, c.z, 3 * k, 10))
           > Lerp(CameraPos.y, realHeight, 3 * k, 10) + 2)

\* the candidates by the branch of the spawn loop they take
Skipped == { c \in CandidateHits : ~InBounds(c) }

Retried == { c \in CandidateHits : InBounds(c) /\ (TooLow(c) \/ ~isVisible(c)) }

Placed == { c \in CandidateHits : InBounds(c) /\ ~TooLow(c) /\ isVisible(c) }

(* ---------------- initial state ---------------- *)
\* variant: the start stamp of the initial WAITING without the buffer
\* compensation
InitialStateStartNoBuffer == FIRST_WAVE_DELAY

\* "This ensures the first wave doesn't start until FIRST_WAVE_DELAY"
InitialStateStart == FIRST_WAVE_DELAY - BUFFER_TIME

\* the value of probe and remembered while no direct call has been made
NoProbe == [op |-> "none", x |-> 0, z |-> 0, value |-> 0]

\* The component after construction: every ref holds the argument of its
\* useRef, the mount effect has not run yet.
Init ==
  /\ pc = "idle"
  /\ now \in MountTimes
  /\ lastFrameTimeRef = 0
  /\ timeRef = 0
  /\ frameScale = 0
  /\ waveStateRef = "WAITING"
  /\ stateStartTimeRef = 0
  /\ lastWaveTimeRef = 0
  /\ spawnQueueRef = 0
  /\ particlesRef = << >>
  /\ gradientMapRef = "null"
  /\ toSpawn = 0
  /\ loopI = 0
  /\ draws = 0
  /\ nextId = 1
  /\ removedIds = {}
  /\ lastRemoved = {}
  /\ wireframeOpacity = 0
  /\ clicks = 0
  /\ placedInWave = 0
  /\ activeSince = 0
  /\ waitingSince = -1
  /\ waveCount = 0
  /\ lastPlacedAt = -1
  /\ lastSettle = "none"
  /\ phase = "constructed"
  /\ disposed = {}
  /\ probe = NoProbe
  /\ remembered = NoProbe

(* ---------------- mount and cleanup ---------------- *)
\* the material, trail geometry and trail material spawnParticle creates
\* for the particle id
ParticleResources(id) ==
  { << "particleMaterial", id >>, << "trailGeometry", id >>,
    << "trailMaterial", id >> }

\* what the mount effect creates and keeps: the renderer, the terrain
\* geometry and the two shared geometries
MountResources ==
  { << "renderer", 0 >>, << "terrainGeometry", 0 >>,
    << "globalParticleGeo", 0 >>, << "globalTrailGeo", 0 >> }

\* the dispose() calls of the removal of the particle id: p.mesh.geometry is
\* the shared globalParticleGeo
DisposedOnRemoval(id) ==
  { << "globalParticleGeo", 0 >> } \cup ParticleResources(id)

\* the dispose() calls of the cleanup
DisposedOnCleanup ==
  { << "globalParticleGeo", 0 >>, << "globalTrailGeo", 0 >>,
    << "renderer", 0 >> }

\* variant: the effect starts the loop without storing the gradient map
mountWithoutMap ==
  /\ phase = "constructed"
  /\ phase' = "mounted"
  /\ lastFrameTimeRef' = now
  /\ stateStartTimeRef' = InitialStateStart
  /\ wireframeOpacity' = WIREFRAME_OPACITY
  /\ UNCHANGED << pc, now, timeRef, frameScale, waveStateRef, lastWaveTimeRef,
                  spawnQueueRef, particlesRef, gradientMapRef, toSpawn, loopI,
                  draws, nextId, removedIds, lastRemoved, clicks, placedInWave, activeSince,
                  waitingSince, waveCount, lastPlacedAt, lastSettle, disposed,
                  probe, remembered >>

\* The mount effect: the frame clock is stamped, the gradient map is built
\* and stored, the listeners are registered, the initial WAITING is stamped
\* and animate is started.  The call of animate that ends the effect runs in
\* the instant of the mount: its delta is below one time unit, the queue and
\* the particle list are empty and no transition is due, so it changes no ref.
mount ==
  /\ phase = "constructed"
  /\ phase' = "mounted"
  /\ lastFrameTimeRef' = now
  /\ gradientMapRef' = "built"
  /\ stateStartTimeRef' = InitialStateStart
  /\ wireframeOpacity' = WIREFRAME_OPACITY
  /\ UNCHANGED << pc, now, timeRef, frameScale, waveStateRef, lastWaveTimeRef,
                  spawnQueueRef, particlesRef, toSpawn, loopI, draws, nextId,
                  removedIds, lastRemoved, clicks, placedInWave, activeSince, waitingSince,
                  waveCount, lastPlacedAt, lastSettle, disposed, probe,
                  remembered >>

\* The cleanup of the effect, between two frames: the listeners are removed,
\* the pending frame is cancelled, and the two shared geometries and the
\* renderer are disposed.
cleanup ==
  /\ phase = "mounted"
  /\ pc = "idle"
  /\ phase' = "unmounted"
  /\ disposed' = disposed \cup DisposedOnCleanup
  /\ UNCHANGED << pc, now, lastFrameTimeRef, timeRef, frameScale, waveStateRef,
                  stateStartTimeRef, lastWaveTimeRef, spawnQueueRef,
                  particlesRef, gradientMapRef, toSpawn, loopI, draws, nextId,
                  removedIds, lastRemoved, wireframeOpacity, clicks, placedInWave, activeSince, waitingSince,
                  waveCount, lastPlacedAt, lastSettle, probe, remembered >>

(* ---------------- click ---------------- *)
\* where the reticle can be when a click arrives: a point of the terrain
\* mesh, whose height at world (x, z) is lossFunction(x, -z)
ReticleSites == { [x |-> 0, z |-> -1, y |-> lossFunction(0, 1)] }

\* handleClick, with the reticle visible: it runs between two frames
handleClick ==
  /\ phase = "mounted"
  /\ pc = "idle"
  /\ clicks < MaxClicks
  /\ \E r \in ReticleSites :
       particlesRef' =
         Append(particlesRef, spawnParticle(nextId, r.x, -r.z, r.y, TRUE))
  /\ nextId' = nextId + 1
  /\ clicks' = clicks + 1
  /\ UNCHANGED << pc, now, lastFrameTimeRef, timeRef, frameScale, waveStateRef,
                  stateStartTimeRef, lastWaveTimeRef, spawnQueueRef,
                  gradientMapRef, toSpawn, loopI, draws, removedIds, lastRemoved, wireframeOpacity,
                  placedInWave, activeSince, waitingSince, waveCount,
                  lastPlacedAt, lastSettle, phase, disposed, probe,
                  remembered >>

(* ---------------- animate ---------------- *)
\* the reference frame duration 0.0166 s of frameScale (scaled: one time unit)
REFERENCE_FRAME == 1

\* variant: the exhale takes FLASH_DECAY of the opacity itself
OpacitySyncWhole(state, start, tSim, opacity) ==
  IF state = "SWELLING"
  THEN Lerp(WIREFRAME_OPACITY, MAX_SWELL_OPACITY,
            (tSim - start) * (tSim - start), SWELL_TIME * SWELL_TIME)
  ELSE IF opacity > WIREFRAME_OPACITY
       THEN opacity - Trunc(opacity * FLASH_DECAY, 100)
       ELSE opacity

\* the opacity sync: while SWELLING the opacity is the lerp from the baseline
\* to the peak at progress squared, otherwise it loses FLASH_DECAY of its
\* distance to the baseline; opacity is the value the state machine left
OpacitySync(state, start, tSim, opacity) ==
  IF state = "SWELLING"
  THEN Lerp(WIREFRAME_OPACITY, MAX_SWELL_OPACITY,
            (tSim - start) * (tSim - start), SWELL_TIME * SWELL_TIME)
  ELSE IF opacity > WIREFRAME_OPACITY
       THEN opacity - Trunc((opacity - WIREFRAME_OPACITY) * FLASH_DECAY, 100)
       ELSE opacity

\* The part of animate that follows the spawn batch: the wave state
\* machine, then the particle loop, which reads the queue the state machine
\* left.  tSim is timeRef.current, tWall is performance.now() / 1000 and fs
\* is frameScale, all three as the frame computed them.  The frame's locals
\* (frameScale, toSpawn, i) end with it.
RestOfFrame(tSim, tWall, fs) ==
  /\ \E w \in { WaveMachine(particlesRef, spawnQueueRef, waveStateRef,
                             stateStartTimeRef, tSim, tWall, lastWaveTimeRef) } :
     \E r \in { ParticleLoop(w.ps, {}, Len(w.ps), w.queue, gradientMapRef, fs) } :
        /\ waveStateRef' = w.state
        /\ stateStartTimeRef' = w.start
        /\ spawnQueueRef' = w.queue
        /\ particlesRef' = r.ps
        /\ removedIds' = removedIds \cup r.gone
        /\ lastRemoved' = r.gone
        /\ wireframeOpacity' =
             OpacitySync(w.state, w.start, tSim,
                         IF w.released THEN MAX_SWELL_OPACITY ELSE wireframeOpacity)
        /\ disposed' = disposed \cup UNION { DisposedOnRemoval(id) : id \in r.gone }
        /\ placedInWave' = IF w.released THEN 0 ELSE placedInWave
        /\ activeSince' = IF w.released THEN tWall ELSE activeSince
        /\ waitingSince' = IF w.settled THEN tSim
                           ELSE IF w.state = "WAITING" THEN waitingSince ELSE -1
        /\ waveCount' = IF w.released THEN waveCount + 1 ELSE waveCount
        /\ lastPlacedAt' = IF w.released THEN -1 ELSE lastPlacedAt
        /\ lastSettle' = w.why
  /\ pc' = "idle"
  /\ frameScale' = 0
  /\ toSpawn' = 0
  /\ loopI' = 0
  /\ draws' = 0
  /\ UNCHANGED << lastWaveTimeRef, gradientMapRef, nextId, clicks, phase,
                  probe, remembered >>

\* A frame that starts with an empty spawn queue: the clocks and frameScale,
\* no spawn batch, and the rest of the frame.  The simulation clock is
\* explored up to limit.
AnimateNoSpawnWithin(limit) ==
  /\ phase = "mounted"
  /\ pc = "idle"
  /\ ~(spawnQueueRef > 0)
  /\ \E d \in FrameDurations :
       /\ timeRef + d <= limit
       /\ now' = now + d
       /\ lastFrameTimeRef' = now'
       /\ timeRef' = timeRef + (now' - lastFrameTimeRef)
       /\ RestOfFrame(timeRef', now', (now' - lastFrameTimeRef) \div REFERENCE_FRAME)

\* animate called with an empty spawn queue
AnimateNoSpawn == AnimateNoSpawnWithin(MaxTime)

\* A frame that starts with a non-empty spawn queue, up to the entry of the
\* spawn loop: the clocks, frameScale and toSpawn.  The simulation clock is
\* explored up to limit.
AnimateBeginWithin(limit) ==
  /\ phase = "mounted"
  /\ pc = "idle"
  /\ spawnQueueRef > 0
  /\ \E d \in FrameDurations :
       /\ timeRef + d <= limit
       /\ now' = now + d
       /\ lastFrameTimeRef' = now'
       /\ timeRef' = timeRef + (now' - lastFrameTimeRef)
       /\ frameScale' = (now' - lastFrameTimeRef) \div REFERENCE_FRAME
  /\ toSpawn' = Min(spawnQueueRef, BATCH_SIZE)
  /\ pc' = "spawn"
  /\ loopI' = 0
  /\ draws' = 0
  /\ UNCHANGED << waveStateRef, stateStartTimeRef, lastWaveTimeRef,
                  spawnQueueRef, particlesRef, gradientMapRef, nextId,
                  removedIds, lastRemoved, wireframeOpacity, clicks, placedInWave, activeSince, waitingSince,
                  waveCount, lastPlacedAt, lastSettle, phase, disposed, probe,
                  remembered >>

\* animate called with a non-empty spawn queue
AnimateBegin == AnimateBeginWithin(MaxTime)

\* variant: the slot is taken off the queue although nothing is placed
SpawnSkipConsumes ==
  /\ pc = "spawn"
  /\ loopI < toSpawn
  /\ \E c \in Skipped : TRUE
  /\ loopI' = loopI + 1
  /\ draws' = draws + 1
  /\ spawnQueueRef' = spawnQueueRef - 1
  /\ UNCHANGED << pc, now, lastFrameTimeRef, timeRef, frameScale, waveStateRef,
                  stateStartTimeRef, lastWaveTimeRef, particlesRef,
                  gradientMapRef, toSpawn, nextId, removedIds, lastRemoved, wireframeOpacity, clicks,
                  placedInWave, activeSince, waitingSince, waveCount,
                  lastSettle, lastPlacedAt, phase, disposed, probe,
                  remembered >>

\* One pass of the spawn loop whose candidate misses the ground plane or the
\* terrain bounds: nothing is placed and the loop moves to the next slot.
SpawnSkip ==
  /\ pc = "spawn"
  /\ loopI < toSpawn
  /\ \E c \in Skipped : TRUE
  /\ loopI' = loopI + 1
  /\ draws' = draws + 1
  /\ UNCHANGED << pc, now, lastFrameTimeRef, timeRef, frameScale, waveStateRef,
                  stateStartTimeRef, lastWaveTimeRef, spawnQueueRef,
                  particlesRef, gradientMapRef, toSpawn, nextId, removedIds, lastRemoved, wireframeOpacity,
                  clicks, placedInWave, activeSince, waitingSince, waveCount,
                  lastSettle, lastPlacedAt, phase, disposed, probe,
                  remembered >>

\* One pass whose candidate is too low or occluded: `i--; continue` (or
\* `i--` at the end of the body) undoes the loop's `i++`, so the same slot
\* is drawn again in this frame.
SpawnRetry ==
  /\ pc = "spawn"
  /\ loopI < toSpawn
  /\ draws < MaxDraws
  /\ \E c \in Retried : TRUE
  /\ loopI' = (loopI - 1) + 1
  /\ draws' = draws + 1
  /\ UNCHANGED << pc, now, lastFrameTimeRef, timeRef, frameScale, waveStateRef,
                  stateStartTimeRef, lastWaveTimeRef, spawnQueueRef,
                  particlesRef, gradientMapRef, toSpawn, nextId, removedIds, lastRemoved, wireframeOpacity,
                  clicks, placedInWave, activeSince, waitingSince, waveCount,
                  lastSettle, lastPlacedAt, phase, disposed, probe,
                  remembered >>

\* variant: the placement that empties the queue does not record its time
SpawnPlaceNoStamp ==
  /\ pc = "spawn"
  /\ loopI < toSpawn
  /\ \E c \in Placed :
       particlesRef' =
         Append(particlesRef,
                spawnParticle(nextId, c.x, -c.z, lossFunction(c.x, c.z), FALSE))
  /\ spawnQueueRef' = spawnQueueRef - 1
  /\ loopI' = loopI + 1
  /\ draws' = draws + 1
  /\ nextId' = nextId + 1
  /\ placedInWave' = placedInWave + 1
  /\ lastPlacedAt' = now
  /\ UNCHANGED << pc, now, lastFrameTimeRef, timeRef, frameScale, waveStateRef,
                  stateStartTimeRef, lastWaveTimeRef, gradientMapRef, toSpawn,
                  removedIds, lastRemoved, wireframeOpacity, clicks, activeSince, waitingSince, waveCount,
                  lastSettle, phase, disposed, probe, remembered >>

\* One pass whose candidate is accepted: spawnParticle(hit.x, -hit.z,
\* realHeight), the queue goes down by one, and the placement that empties
\* it records performance.now() / 1000 in lastWaveTimeRef.
SpawnPlace ==
  /\ pc = "spawn"
  /\ loopI < toSpawn
  /\ \E c \in Placed :
       particlesRef' =
         Append(particlesRef,
                spawnParticle(nextId, c.x, -c.z, lossFunction(c.x, c.z), FALSE))
  /\ spawnQueueRef' = spawnQueueRef - 1
  /\ lastWaveTimeRef' = IF spawnQueueRef' = 0 THEN now ELSE lastWaveTimeRef
  /\ loopI' = loopI + 1
  /\ draws' = draws + 1
  /\ nextId' = nextId + 1
  /\ placedInWave' = placedInWave + 1
  /\ lastPlacedAt' = now
  /\ UNCHANGED << pc, now, lastFrameTimeRef, timeRef, frameScale, waveStateRef,
                  stateStartTimeRef, gradientMapRef, toSpawn, removedIds, lastRemoved, wireframeOpacity,
                  clicks, activeSince, waitingSince, waveCount, lastSettle,
                  phase, disposed, probe, remembered >>

\* The spawn loop has ended (`i < toSpawn` is false): the rest of the frame.
AnimateRest ==
  /\ pc = "spawn"
  /\ ~(loopI < toSpawn)
  /\ RestOfFrame(timeRef, now, frameScale)
  /\ UNCHANGED << now, lastFrameTimeRef, timeRef >>

Next ==
  \/ mount
  \/ cleanup
  \/ handleClick
  \/ AnimateNoSpawn
  \/ AnimateBegin
  \/ SpawnSkip
  \/ SpawnRetry
  \/ SpawnPlace
  \/ AnimateRest

Spec == Init /\ [][Next]_vars

(* ---------------- the waves left to themselves ---------------- *)
\* animate with an empty spawn queue, over the longer stretch of time
AnimateNoSpawnLong == AnimateNoSpawnWithin(MaxWaveTime)

\* animate with a non-empty spawn queue, over the longer stretch of time
AnimateBeginLong == AnimateBeginWithin(MaxWaveTime)

WavesNext ==
  \/ mount
  \/ cleanup
  \/ AnimateNoSpawnLong
  \/ AnimateBeginLong
  \/ SpawnSkip
  \/ SpawnRetry
  \/ SpawnPlace
  \/ AnimateRest

\* the component when nobody clicks, followed long enough for the second
\* wave to be released and placed
WavesSpec == Init /\ [][WavesNext]_vars

(* ---------------- direct calls of the field functions ---------------- *)
\* the coordinates the direct calls are made with
Coords == -MaxCoord .. MaxCoord

\* a call that is kept for comparison with a later one: an earlier call of
\* lossFunction or of buildGradientMap
Remember ==
  remembered' \in {remembered}
                    \cup (IF probe.op \in {"height", "build"} THEN {probe} ELSE {})

\* lossFunction(x, z)
HeightCall ==
  /\ \E x \in Coords, z \in Coords :
       probe' = [op |-> "height", x |-> x, z |-> z, value |-> lossFunction(x, z)]
  /\ Remember
  /\ UNCHANGED componentVars

\* buildGradientMap()
BuildCall ==
  /\ probe' = [op |-> "build", x |-> 0, z |-> 0, value |-> buildGradientMap]
  /\ Remember
  /\ UNCHANGED componentVars

\* gradient(x, z) with the map built, down to the cell indices x0, x1, z0,
\* z1 and the fractions tx, tz
GradientQuery ==
  /\ gradientMapRef = "built"
  /\ \E x \in Coords, z \in Coords :
       probe' = [op |-> "cell", x |-> x, z |-> z, value |-> GradientCell(x, z)]
  /\ Remember
  /\ UNCHANGED componentVars

\* the rest of that call of gradient: the two bilinear samples
GradientSample ==
  /\ probe.op = "cell"
  /\ probe' = [probe EXCEPT !.op = "gradient",
                            !.value = gradient(gradientMapRef, probe.x, probe.z)]
  /\ UNCHANGED remembered
  /\ UNCHANGED componentVars

\* the elevations a sample of the height field is drawn from: two finite
\* ones and the three non-finite numbers
SampledHeights == { Finite(-1), Finite(5), NaN, PosInfinity, NegInfinity }

\* the dx entry of one cell of buildGradientMap, from the elevations sampled
\* at x + h and x - h
EntryDx ==
  /\ \E hi \in SampledHeights, lo \in SampledHeights :
       probe' = [op |-> "dx", x |-> 0, z |-> 0,
                 value |-> [xs |-> << hi, lo >>,
                            dx |-> GradientEntry(hi, lo, GRADIENT_STEP)]]
  /\ Remember
  /\ UNCHANGED componentVars

\* the dz entry of the same cell, from the elevations sampled at z + h and
\* z - h
EntryDz ==
  /\ probe.op = "dx"
  /\ \E hi \in SampledHeights, lo \in SampledHeights :
       probe' = [op |-> "entry", x |-> 0, z |-> 0,
                 value |-> [xs |-> probe.value.xs,
                            zs |-> << hi, lo >>,
                            dx |-> probe.value.dx,
                            dz |-> GradientEntry(hi, lo, GRADIENT_STEP)]]
  /\ UNCHANGED remembered
  /\ UNCHANGED componentVars

FieldNext ==
  \/ mount
  \/ HeightCall
  \/ BuildCall
  \/ GradientQuery
  \/ GradientSample
  \/ EntryDx
  \/ EntryDz

\* the field functions called with arbitrary arguments, before and after
\* the mount
FieldSpec == Init /\ [][FieldNext]_vars

(* ---------------- properties ---------------- *)
\* The longest frame the model draws.
FrameMax == CHOOSE d \in FrameDurations : \A e \in FrameDurations : e <= d

\* performance.now() - timeRef is fixed at mount: the simulation clock only
\* accumulates the wall-clock deltas.
MountOffset == now - timeRef

\* C1: a wave in which no spawn candidate is ever accepted still ends: with
\* nothing placed since SWELLING -> ACTIVE, the scheduler is back in WAITING by
\* the end of the first frame that is more than MAX_WAVE_INTERVAL past the
\* entry into ACTIVE.
C1_EmptyWaveEnds ==
  (pc = "idle" /\ waveStateRef = "ACTIVE" /\ placedInWave = 0)
    => now - activeSince <= MAX_WAVE_INTERVAL + FrameMax

\* C2: within one frame the spawn step draws at most
\* min(spawnQueue, BATCH_SIZE) candidates: a rejected slot is not drawn again
\* in the same frame.
C2_DrawsWithinBatch ==
  pc = "spawn" => draws <= toSpawn /\ toSpawn <= BATCH_SIZE

\* C3: after ACTIVE -> WAITING the scheduler enters SWELLING in the first
\* frame whose simulation time is more than BUFFER_TIME past the entry into
\* WAITING, whatever performance.now() was at mount: no frame ends still
\* WAITING beyond that.
C3_BufferOnSimulationClock ==
  (pc = "idle" /\ waveStateRef = "WAITING" /\ waitingSince >= 0)
    => timeRef - waitingSince <= BUFFER_TIME

\* C4: the scheduler starts in WAITING; the first WAITING -> SWELLING fires
\* in the first frame whose simulation time exceeds FIRST_WAVE_DELAY and in
\* no earlier one, and the first ACTIVE is entered in the first frame more
\* than SWELL_TIME of simulation time after that.
C4_FirstWaveTiming ==
  /\ waveCount = 0 => waveStateRef \in {"WAITING", "SWELLING"}
  /\ (waveCount = 0 /\ timeRef <= FIRST_WAVE_DELAY) => waveStateRef = "WAITING"
  /\ (waveCount = 0 /\ waveStateRef = "WAITING" /\ pc = "idle")
       => timeRef <= FIRST_WAVE_DELAY
  /\ (waveCount = 0 /\ waveStateRef = "SWELLING")
       => /\ stateStartTimeRef > FIRST_WAVE_DELAY
          /\ pc = "idle" => timeRef - stateStartTimeRef <= SWELL_TIME
  /\ (waveCount = 1 /\ waveStateRef = "ACTIVE")
       => /\ stateStartTimeRef > FIRST_WAVE_DELAY
          /\ (activeSince - MountOffset) - stateStartTimeRef > SWELL_TIME
          /\ (activeSince - MountOffset) - stateStartTimeRef <= SWELL_TIME + FrameMax

\* the first wave has been released
C4_Witness == waveCount = 1 /\ waveStateRef = "ACTIVE" /\ pc = "idle"

\* C5: a step leaves ACTIVE only for WAITING, only with an empty spawn queue,
\* and only when the non-fading particles are a non-empty set that are all
\* slower than VELOCITY_THRESHOLD and older than MIN_AGE frames, or when more
\* than MAX_WAVE_INTERVAL has passed since the wave's last placement.
C5_LeavesActiveOnlyWhen ==
  [][ (waveStateRef = "ACTIVE" /\ waveStateRef' # "ACTIVE")
        => /\ waveStateRef' = "WAITING"
           /\ spawnQueueRef = 0
           /\ \/ /\ \E i \in 1 .. Len(particlesRef) : ~particlesRef[i].isFading
                 /\ \A i \in 1 .. Len(particlesRef) :
                      ~particlesRef[i].isFading
                        => /\ Speed(particlesRef[i]) < VELOCITY_THRESHOLD
                           /\ particlesRef[i].age > MIN_AGE
              \/ /\ lastPlacedAt >= 0
                 /\ now' - lastPlacedAt > MAX_WAVE_INTERVAL ]_vars

\* a frame has left ACTIVE because the particles had stopped, before the
\* time-out
C5_Witness == lastSettle = "stopped" /\ waveStateRef = "WAITING"

\* C6: no frame ends in ACTIVE with an empty spawn queue once more than
\* MAX_WAVE_INTERVAL has passed since the wave's last placement, whatever
\* the speeds and ages of the particles, click-born ones included.
C6_TimeoutEndsWave ==
  (pc = "idle" /\ waveStateRef = "ACTIVE" /\ spawnQueueRef = 0)
    => /\ lastPlacedAt >= 0
       /\ now - lastPlacedAt <= MAX_WAVE_INTERVAL

\* the time-out has ended a wave while a particle was still moving
C6_Witness ==
  /\ lastSettle = "timeout"
  /\ waveStateRef = "WAITING"
  /\ \E i \in 1 .. Len(particlesRef) :
       particlesRef[i].fadeTicks = 1 /\ ~BelowThreshold(particlesRef[i])

\* the particle of the list ps with identity id
ById(ps, id) == ps[CHOOSE i \in 1 .. Len(ps) : ps[i].id = id]

\* the identities of the particles of the list ps
Ids(ps) == { ps[i].id : i \in 1 .. Len(ps) }

\* C7: in the frame that takes ACTIVE to WAITING every live particle ends
\* flagged as fading, and from the particle update of that frame on no
\* flagged particle integrates physics: its position and velocity stay.
C7_SettleFlagsAll ==
  [][ /\ (waveStateRef = "ACTIVE" /\ waveStateRef' = "WAITING")
         => \A i \in 1 .. Len(particlesRef') : particlesRef'[i].isFading
      /\ \A id \in Ids(particlesRef) \cap Ids(particlesRef') :
           ById(particlesRef', id).isFading
             => /\ ById(particlesRef', id).x = ById(particlesRef, id).x
                /\ ById(particlesRef', id).z = ById(particlesRef, id).z
                /\ ById(particlesRef', id).vx = ById(particlesRef, id).vx
                /\ ById(particlesRef', id).vz = ById(particlesRef, id).vz ]_vars

\* a frame has just left ACTIVE with a wave particle and a click-born
\* particle in the list
C7_Witness ==
  /\ lastSettle # "none"
  /\ pc = "idle"
  /\ \E i \in 1 .. Len(particlesRef) :
       particlesRef[i].byClick /\ particlesRef[i].fadeTicks = 1
  /\ \E i \in 1 .. Len(particlesRef) :
       ~particlesRef[i].byClick /\ particlesRef[i].fadeTicks = 1

\* C8: the lifecycle of a particle is monotonic: it enters the list
\* non-fading, fading never goes back from true to false, and only a
\* particle flagged as fading leaves the list.
C8_LifecycleMonotonic ==
  [][ /\ \A id \in Ids(particlesRef') \ Ids(particlesRef) :
           ~ById(particlesRef', id).isFading
      /\ \A id \in Ids(particlesRef) \cap Ids(particlesRef') :
           ById(particlesRef, id).isFading => ById(particlesRef', id).isFading
      /\ \A id \in Ids(particlesRef) \ Ids(particlesRef') :
           \/ ById(particlesRef, id).isFading
           \/ (waveStateRef = "ACTIVE" /\ waveStateRef' = "WAITING") ]_vars

\* a flagged particle has been removed while a later, click-born particle
\* lives on non-fading
C8_Witness ==
  /\ removedIds # {}
  /\ \E i \in 1 .. Len(particlesRef) :
       ~particlesRef[i].isFading /\ particlesRef[i].byClick

\* the number of multiplications by (1 - FADE_OUT_SPEED) that take the
\* scale num / den below the removal threshold
RECURSIVE ShrinksNeeded(_, _, _)
ShrinksNeeded(num, den, k) ==
  IF num < REMOVE_SCALE * den THEN k
  ELSE ShrinksNeeded(num * (100 - FADE_OUT_SPEED), den * 100, k + 1)

\* b to the power k
RECURSIVE Pow(_, _)
Pow(b, k) == IF k = 0 THEN 1 ELSE b * Pow(b, k - 1)

\* C9: a fading particle leaves the list within a number of frames bounded
\* by FADE_OUT_SPEED and its scale when it was flagged: its scale stays under
\* the geometric envelope flagScale * (1 - FADE_OUT_SPEED)^frames, it is gone
\* before that envelope is under the removal threshold, and a removed
\* particle is never in the list again.
C9_FadeEnds ==
  /\ \A i \in 1 .. Len(particlesRef) :
       particlesRef[i].isFading
         => /\ particlesRef[i].fadeTicks
                 <= ShrinksNeeded(particlesRef[i].flagScale, 1, 0)
            /\ particlesRef[i].scale * Pow(100, particlesRef[i].fadeTicks)
                 <= particlesRef[i].flagScale
                      * Pow(100 - FADE_OUT_SPEED, particlesRef[i].fadeTicks)
  /\ Ids(particlesRef) \cap removedIds = {}

\* a particle has faded out: its identity is removed and the list holds
\* no fading particle any more
C9_Witness ==
  /\ removedIds # {}
  /\ \A i \in 1 .. Len(particlesRef) : ~particlesRef[i].isFading

\* C10: the trail buffer of every live particle holds exactly TRAIL_LENGTH
\* points, from creation through movement, staging and fading.
C10_TrailLength ==
  \A i \in 1 .. Len(particlesRef) :
    DOMAIN particlesRef[i].trail = 1 .. TRAIL_LENGTH

\* a particle that has moved and is now fading, its trail collapsing
C10_Witness ==
  \E i \in 1 .. Len(particlesRef) :
    /\ particlesRef[i].isFading
    /\ particlesRef[i].fadeTicks >= 1
    /\ particlesRef[i].trail[1] # particlesRef[i].trail[TRAIL_LENGTH]

\* the query point of the latest direct call lies outside the extent the
\* gradient map covers
ProbeOutside ==
  \/ probe.x < MIN_X
  \/ probe.x > MAX_X
  \/ probe.z < MIN_Z
  \/ probe.z > MAX_Z

\* C11: with the map built, gradient(x, z) reads dxMap and dzMap only at
\* indices in 0 .. RESOLUTION * RESOLUTION - 1, whatever (x, z), also outside
\* the terrain extent: 0 <= x0 < x1 <= RESOLUTION - 1 and
\* 0 <= z0 < z1 <= RESOLUTION - 1.
C11_IndicesInRange ==
  probe.op = "cell"
    => /\ 0 <= probe.value.x0
       /\ probe.value.x0 < probe.value.x1
       /\ probe.value.x1 <= RESOLUTION - 1
       /\ 0 <= probe.value.z0
       /\ probe.value.z0 < probe.value.z1
       /\ probe.value.z1 <= RESOLUTION - 1
       /\ \A zi \in {probe.value.z0, probe.value.z1} :
            \A xi \in {probe.value.x0, probe.value.x1} :
              zi * RESOLUTION + xi \in 0 .. RESOLUTION * RESOLUTION - 1

\* gradient has been sampled at a point beyond a corner of the extent
C11_Witness ==
  /\ probe.op = "gradient"
  /\ probe.x > MAX_X
  /\ probe.z < MIN_Z

\* the nearest point of the extent [-WIDTH/2, WIDTH/2] x [-DEPTH/2, DEPTH/2]
NearestInExtent(x, z) ==
  [x |-> Clamp(x, MIN_X, MAX_X), z |-> Clamp(z, MIN_Z, MAX_Z)]

\* the values of the array at the four nodes of the cell c
Neighbours(array, c) ==
  { array[zi * RESOLUTION + xi] : zi \in {c.z0, c.z1}, xi \in {c.x0, c.x1} }

\* v lies between the least and the greatest element of the set S
WithinRange(v, S) == (\E a \in S : a <= v) /\ (\E b \in S : v <= b)

\* C12: a query outside the extent of the gradient map is clamped before
\* the lookup: gradient(x, z) is the gradient at the nearest point of the
\* extent, the weights tx and tz lie in [0, 1], and each component lies
\* within the range of the four stored neighbour values.
C12_ClampedLookup ==
  probe.op = "gradient"
    => /\ probe.value
            = gradient(gradientMapRef, NearestInExtent(probe.x, probe.z).x,
                       NearestInExtent(probe.x, probe.z).z)
       /\ GradientCell(probe.x, probe.z).txN \in 0 .. (MAX_X - MIN_X)
       /\ GradientCell(probe.x, probe.z).tzN \in 0 .. (MAX_Z - MIN_Z)
       /\ WithinRange(probe.value.dx,
                      Neighbours(buildGradientMap.dxMap,
                                 GradientCell(probe.x, probe.z)))
       /\ WithinRange(probe.value.dz,
                      Neighbours(buildGradientMap.dzMap,
                                 GradientCell(probe.x, probe.z)))

\* C13: a particle the wave spawner has just placed lies inside the terrain
\* bounds, and the elevation at the coordinates (x, z) it is stored with is
\* at least MIN_SPAWN_HEIGHT.
C13_PlacedAboveMinHeight ==
  \A i \in 1 .. Len(particlesRef) :
    (~particlesRef[i].byClick /\ particlesRef[i].age = 0)
      => /\ Abs(particlesRef[i].x) * 2 <= WIDTH
         /\ Abs(particlesRef[i].z) * 2 <= DEPTH
         /\ lossFunction(particlesRef[i].x, particlesRef[i].z) >= MIN_SPAWN_HEIGHT

\* C14: the spawn queue stays within 0 .. PARTICLES_PER_WAVE; a candidate
\* draw that places a particle lowers it by exactly 1 and a draw that places
\* none leaves it unchanged; and between two frames, for every wave, the
\* particles placed for the wave plus the queue make PARTICLES_PER_WAVE.
C14_QueueAccounting ==
  /\ [](/\ spawnQueueRef \in 0 .. PARTICLES_PER_WAVE
        /\ (pc = "idle" /\ waveCount >= 1)
             => placedInWave + spawnQueueRef = PARTICLES_PER_WAVE)
  /\ [][ draws' = draws + 1
           => IF Len(particlesRef') = Len(particlesRef) + 1
              THEN spawnQueueRef' = spawnQueueRef - 1
              ELSE spawnQueueRef' = spawnQueueRef /\ particlesRef' = particlesRef
       ]_vars

\* between two frames of the first wave, one particle placed and one still
\* queued
C14_Witness ==
  /\ pc = "idle"
  /\ waveCount = 1
  /\ placedInWave = 1
  /\ spawnQueueRef = PARTICLES_PER_WAVE - 1

\* C15: the gradient map is stored exactly once, by the mount effect, before
\* the first frame, and is never written afterwards; every frame, and so
\* every physics update, runs with the map built.
C15_MapBuiltOnce ==
  /\ [](/\ phase = "constructed" => gradientMapRef = "null" /\ timeRef = 0
        /\ phase # "constructed" => gradientMapRef = "built"
        /\ pc # "idle" => gradientMapRef = "built")
  /\ [][ /\ gradientMapRef' # gradientMapRef
              => /\ phase = "constructed" /\ phase' = "mounted"
                 /\ gradientMapRef = "null" /\ gradientMapRef' = "built"
         /\ timeRef' # timeRef => gradientMapRef = "built"
       ]_vars

\* a particle that the physics has moved along the sampled gradient
C15_Witness ==
  /\ gradientMapRef = "built"
  /\ \E i \in 1 .. Len(particlesRef) :
       /\ particlesRef[i].age >= 1
       /\ ~particlesRef[i].isFading
       /\ particlesRef[i].vx # 0 \/ particlesRef[i].vz # 0

\* C16: the wave state, the spawn queue and the particle list are written
\* only by animate: a step of an event handler between two frames (the click
\* handler is the only one that reaches them) leaves all three unchanged.
C16_OnlyAnimateWrites ==
  [][ clicks' # clicks
        => UNCHANGED << waveStateRef, stateStartTimeRef, lastWaveTimeRef,
                        spawnQueueRef, particlesRef >> ]_vars

\* C17: once the component is torn down every resource it still held has been
\* disposed: the renderer, the terrain geometry, the shared particle and
\* trail geometries, and the material, trail geometry and trail material of
\* every particle still in the list.
C17_TeardownReleasesAll ==
  phase = "unmounted"
    => /\ MountResources \subseteq disposed
       /\ \A i \in 1 .. Len(particlesRef) :
            ParticleResources(particlesRef[i].id) \subseteq disposed

RECURSIVE ShrinkTimes(_, _)
ShrinkTimes(scale, n) == IF n = 0 THEN scale ELSE ShrinkTimes(Shrink(scale), n - 1)

\* C19: a frame multiplies the scale of a fading particle that stays in the
\* list by (1 - FADE_OUT_SPEED) exactly once: after n frames of fading the
\* scale is the scale at flagging times (1 - FADE_OUT_SPEED)^n.
C19_ShrinkOncePerTick ==
  \A i \in 1 .. Len(particlesRef) :
    particlesRef[i].isFading
      => particlesRef[i].scale
           = ShrinkTimes(particlesRef[i].flagScale, particlesRef[i].fadeTicks)

FrameEnds == pc' = "idle" /\ (pc = "spawn" \/ now' # now)

\* C21: in a frame whose particle loop runs with a non-empty spawn queue,
\* every particle that is not fading, born of the wave or of a click, keeps
\* its position and velocity, and after the frame every one of its
\* TRAIL_LENGTH trail points is its head position.
C21_StagingHolds ==
  [][ (FrameEnds /\ spawnQueueRef' > 0)
        => \A id \in Ids(particlesRef) \cap Ids(particlesRef') :
             ~ById(particlesRef', id).isFading
               => /\ ById(particlesRef', id).x = ById(particlesRef, id).x
                  /\ ById(particlesRef', id).z = ById(particlesRef, id).z
                  /\ ById(particlesRef', id).vx = ById(particlesRef, id).vx
                  /\ ById(particlesRef', id).vz = ById(particlesRef, id).vz
                  /\ Len(ById(particlesRef', id).trail) = TRAIL_LENGTH
                  /\ \A j \in 1 .. TRAIL_LENGTH :
                       ById(particlesRef', id).trail[j]
                         = << ById(particlesRef', id).x,
                              lossFunction(ById(particlesRef', id).x,
                                           ById(particlesRef', id).z)
                                + HEIGHT_OFFSET,
                              -ById(particlesRef', id).z >> ]_vars

\* between two frames with placements still due: a click-born and a
\* wave-born particle have both been through a frame of staging
C21_Witness ==
  /\ pc = "idle"
  /\ spawnQueueRef > 0
  /\ \E i \in 1 .. Len(particlesRef) :
       /\ particlesRef[i].byClick
       /\ ~particlesRef[i].isFading
       /\ particlesRef[i].age >= 1
  /\ \E i \in 1 .. Len(particlesRef) :
       /\ ~particlesRef[i].byClick
       /\ ~particlesRef[i].isFading
       /\ particlesRef[i].age >= 1

\* C22: in a frame whose particle loop runs with an empty spawn queue, the
\* trail of a particle that is not fading becomes a one-step shift of its old
\* trail: slot 0 takes the head position of this frame and slot j takes the
\* old slot j - 1 for 1 <= j < TRAIL_LENGTH, the oldest point being dropped.
C22_TrailShifts ==
  [][ (FrameEnds /\ spawnQueueRef' = 0)
        => \A id \in Ids(particlesRef) \cap Ids(particlesRef') :
             ~ById(particlesRef', id).isFading
               => /\ ById(particlesRef', id).trail[1]
                       = << ById(particlesRef', id).x,
                            lossFunction(ById(particlesRef', id).x,
                                         ById(particlesRef', id).z)
                              + HEIGHT_OFFSET,
                            -ById(particlesRef', id).z >>
                  /\ \A j \in 2 .. TRAIL_LENGTH :
                       ById(particlesRef', id).trail[j]
                         = ById(particlesRef, id).trail[j - 1] ]_vars

\* a particle still moving whose trail holds three different head positions
C22_Witness ==
  \E i \in 1 .. Len(particlesRef) :
    /\ ~particlesRef[i].isFading
    /\ spawnQueueRef = 0
    /\ particlesRef[i].trail[1] # particlesRef[i].trail[2]
    /\ particlesRef[i].trail[2] # particlesRef[i].trail[3]
    /\ particlesRef[i].trail[1] # particlesRef[i].trail[3]

\* C23: lastWaveTimeRef is written only by the placement that takes the spawn
\* queue from 1 to 0; so whenever the state is ACTIVE with an empty queue,
\* lastWaveTimeRef, from which the timeout is measured, is the time of the
\* latest placement of the current wave, not that of an earlier wave nor the
\* initial 0.
C23_TimeoutFromLastPlacement ==
  /\ []((waveStateRef = "ACTIVE" /\ spawnQueueRef = 0)
          => /\ lastPlacedAt # -1
             /\ lastWaveTimeRef = lastPlacedAt
             /\ lastWaveTimeRef >= activeSince
             /\ lastWaveTimeRef > 0)
  /\ [][ lastWaveTimeRef' # lastWaveTimeRef
           => /\ spawnQueueRef = 1
              /\ spawnQueueRef' = 0
              /\ Len(particlesRef') = Len(particlesRef) + 1
              /\ lastWaveTimeRef' = now ]_vars

\* a frame of the ACTIVE state of the second wave after its last placement,
\* the timeout running: lastWaveTimeRef is no longer the time the first wave
\* left in it
C23_Witness ==
  /\ pc = "idle"
  /\ waveCount = 2
  /\ waveStateRef = "ACTIVE"
  /\ spawnQueueRef = 0
  /\ placedInWave = PARTICLES_PER_WAVE
  /\ now > lastWaveTimeRef

\* C24: SWELLING -> ACTIVE fires in the first frame in which the simulation
\* clock is more than SWELL_TIME past the entry into SWELLING, and that frame
\* ends with the spawn queue at exactly PARTICLES_PER_WAVE; this transition
\* and WAITING -> SWELLING fire as soon as their timer allows, whatever the
\* particle list holds.
C24_SwellRelease ==
  /\ []((pc = "idle" /\ waveStateRef = "SWELLING")
          => timeRef - stateStartTimeRef <= SWELL_TIME)
  /\ [][ /\ (waveStateRef = "SWELLING" /\ waveStateRef' = "ACTIVE")
              => /\ timeRef' - stateStartTimeRef > SWELL_TIME
                 /\ pc' = "idle"
                 /\ spawnQueueRef' = PARTICLES_PER_WAVE
         /\ (FrameEnds /\ waveStateRef = "SWELLING"
               /\ timeRef' - stateStartTimeRef > SWELL_TIME)
              => waveStateRef' = "ACTIVE"
         /\ (waveStateRef = "WAITING" /\ waveStateRef' = "SWELLING")
              => timeRef' - stateStartTimeRef > BUFFER_TIME
         /\ (FrameEnds /\ waveStateRef = "WAITING"
               /\ timeRef' - stateStartTimeRef > BUFFER_TIME)
              => waveStateRef' = "SWELLING" /\ stateStartTimeRef' = timeRef'
       ]_vars

\* the wave has just been released while a particle was already in the list
C24_Witness ==
  /\ pc = "idle"
  /\ waveStateRef = "ACTIVE"
  /\ spawnQueueRef = PARTICLES_PER_WAVE
  /\ placedInWave = 0
  /\ Len(particlesRef) > 0

\* frameScale of the frame that the step ends: deltaTimeSec / 0.0166
FrameScaleOfStep ==
  IF pc = "spawn" THEN frameScale ELSE (now' - lastFrameTimeRef) \div REFERENCE_FRAME

\* the velocity after one step: v * MOMENTUM - g * LEARNING_RATE * frameScale
VelocityStep(v, g, fs) == Trunc(v * MOMENTUM, 100) - Trunc(g * fs, LEARNING_RATE_DEN)

\* C25: in a frame whose particle loop runs with an empty spawn queue, every
\* particle that is not fading gets v' = v * MOMENTUM - g * LEARNING_RATE *
\* frameScale and then pos' = pos + v' * frameScale, with g the gradient at
\* the old position, MOMENTUM not multiplied by frameScale, and the one
\* frameScale of the frame used for all of them.
C25_PhysicsStep ==
  [][ (FrameEnds /\ spawnQueueRef' = 0)
        => \A id \in Ids(particlesRef) \cap Ids(particlesRef') :
             ~ById(particlesRef', id).isFading
               => /\ ById(particlesRef', id).vx
                       = VelocityStep(ById(particlesRef, id).vx,
                                      gradient(gradientMapRef,
                                               ById(particlesRef, id).x,
                                               ById(particlesRef, id).z).dx,
                                      FrameScaleOfStep)
                  /\ ById(particlesRef', id).vz
                       = VelocityStep(ById(particlesRef, id).vz,
                                      gradient(gradientMapRef,
                                               ById(particlesRef, id).x,
                                               ById(particlesRef, id).z).dz,
                                      FrameScaleOfStep)
                  /\ ById(particlesRef', id).x
                       = ById(particlesRef, id).x
                           + ById(particlesRef', id).vx * FrameScaleOfStep
                  /\ ById(particlesRef', id).z
                       = ById(particlesRef, id).z
                           + ById(particlesRef', id).vz * FrameScaleOfStep ]_vars

\* two particles that are both moving after at least two frames each
C25_Witness ==
  /\ pc = "idle"
  /\ spawnQueueRef = 0
  /\ \E i, j \in 1 .. Len(particlesRef) :
       /\ i # j
       /\ ~particlesRef[i].isFading /\ ~particlesRef[j].isFading
       /\ particlesRef[i].age >= 2 /\ particlesRef[j].age >= 2
       /\ particlesRef[i].vx # 0 \/ particlesRef[i].vz # 0
       /\ particlesRef[j].vx # 0 \/ particlesRef[j].vz # 0

\* what the entry holds for the samples hi and lo: their central difference
\* when both are finite, 0 otherwise
ExpectedEntry(pair) ==
  IF pair[1].kind = "finite" /\ pair[2].kind = "finite"
  THEN Finite(Trunc(pair[1].n - pair[2].n, 2 * GRADIENT_STEP))
  ELSE Finite(0)

\* C26: every entry buildGradientMap stores is finite: a central difference
\* that is NaN or infinite is stored as 0, a finite one as it is, and each of
\* the two entries of a cell depends on its own pair of samples only; the map
\* built from lossFunction holds integers only.
C26_EntriesFinite ==
  /\ probe.op = "entry"
       => /\ isFinite(probe.value.dx)
          /\ isFinite(probe.value.dz)
          /\ probe.value.dx = ExpectedEntry(probe.value.xs)
          /\ probe.value.dz = ExpectedEntry(probe.value.zs)
  /\ probe.op = "build"
       => \A idx \in 0 .. RESOLUTION * RESOLUTION - 1 :
            /\ probe.value.dxMap[idx] \in Int
            /\ probe.value.dzMap[idx] \in Int

\* a cell whose difference in x is NaN (Infinity - Infinity) and whose
\* difference in z is finite and not 0
C26_Witness ==
  /\ probe.op = "entry"
  /\ probe.value.xs = << PosInfinity, PosInfinity >>
  /\ probe.value.zs = << Finite(5), Finite(-1) >>
  /\ probe.value.dx = Finite(0)
  /\ probe.value.dz = Finite(3)

\* C27: in every frame each particle that is in the list when the particle
\* loop starts is processed exactly once: it is removed, or it stays and its
\* age grows by exactly 1; the loop adds no particle and keeps the order of
\* those that stay.
C27_EachParticleOnce ==
  [][ FrameEnds
        => /\ Ids(particlesRef') \subseteq Ids(particlesRef)
           /\ \A id \in Ids(particlesRef) :
                IF id \in Ids(particlesRef')
                THEN ById(particlesRef', id).age = ById(particlesRef, id).age + 1
                ELSE id \in removedIds' \ removedIds
           /\ \A i, j \in 1 .. Len(particlesRef') :
                i < j => particlesRef'[i].id < particlesRef'[j].id ]_vars

\* the particle loop of the latest frame has removed two particles and has
\* updated a particle that stays
C27_Witness ==
  /\ pc = "idle"
  /\ Cardinality(lastRemoved) >= 2
  /\ \E i \in 1 .. Len(particlesRef) : particlesRef[i].age >= 1

\* C28: after every frame the wireframe opacity lies between
\* WIREFRAME_OPACITY and MAX_SWELL_OPACITY.  A frame that ends in SWELLING
\* leaves the interpolation from the baseline to the peak at progress squared,
\* with progress in [0, 1].  A frame that ends in another state takes the
\* opacity (the peak, in the frame that releases the wave) towards the
\* baseline by FLASH_DECAY of its distance to it, never below it.
C28_OpacityWithinRange ==
  /\ [](phase # "constructed"
          => /\ wireframeOpacity >= WIREFRAME_OPACITY
             /\ wireframeOpacity <= MAX_SWELL_OPACITY)
  /\ []((pc = "idle" /\ waveStateRef = "SWELLING")
          => /\ timeRef - stateStartTimeRef >= 0
             /\ timeRef - stateStartTimeRef <= SWELL_TIME
             /\ wireframeOpacity * SWELL_TIME * SWELL_TIME
                  <= WIREFRAME_OPACITY * SWELL_TIME * SWELL_TIME
                     + (MAX_SWELL_OPACITY - WIREFRAME_OPACITY)
                         * (timeRef - stateStartTimeRef)
                         * (timeRef - stateStartTimeRef)
             /\ (wireframeOpacity + 1) * SWELL_TIME * SWELL_TIME
                  > WIREFRAME_OPACITY * SWELL_TIME * SWELL_TIME
                    + (MAX_SWELL_OPACITY - WIREFRAME_OPACITY)
                        * (timeRef - stateStartTimeRef)
                        * (timeRef - stateStartTimeRef))
  /\ [][ (FrameEnds /\ waveStateRef' # "SWELLING")
           => \E from \in { IF waveCount' # waveCount THEN MAX_SWELL_OPACITY
                            ELSE wireframeOpacity } :
                /\ wireframeOpacity' <= from
                /\ wireframeOpacity' >= WIREFRAME_OPACITY
                /\ (from - wireframeOpacity') * 100
                     <= (from - WIREFRAME_OPACITY) * FLASH_DECAY
                /\ (from - wireframeOpacity' + 1) * 100
                     > (from - WIREFRAME_OPACITY) * FLASH_DECAY
       ]_vars

\* the exhale still going on after the first wave has settled
C28_Witness ==
  /\ pc = "idle"
  /\ waveCount = 1
  /\ waveStateRef = "WAITING"
  /\ wireframeOpacity > WIREFRAME_OPACITY
  /\ wireframeOpacity < MAX_SWELL_OPACITY

\* C29: between two frames a non-empty spawn queue implies the ACTIVE state
\* with placements of the wave still due: the queue is 0 all through WAITING
\* and SWELLING, so a particle, click-born ones included, is held in staging
\* only by a frame that ends in ACTIVE.
C29_QueueOnlyWhenActive ==
  /\ [](/\ spawnQueueRef > 0
             => waveStateRef = "ACTIVE" /\ placedInWave < PARTICLES_PER_WAVE
        /\ waveStateRef \in {"WAITING", "SWELLING"} => spawnQueueRef = 0)
  /\ [][ (FrameEnds /\ spawnQueueRef' > 0) => waveStateRef' = "ACTIVE" ]_vars

\* a click-born particle held in staging by a frame of the ACTIVE state with
\* one placement made and one still due
C29_Witness ==
  /\ pc = "idle"
  /\ waveStateRef = "ACTIVE"
  /\ spawnQueueRef > 0
  /\ placedInWave >= 1
  /\ \E i \in 1 .. Len(particlesRef) :
       /\ particlesRef[i].byClick
       /\ particlesRef[i].age >= 1
       /\ \A j \in 1 .. TRAIL_LENGTH :
            particlesRef[i].trail[j] = particlesRef[i].trail[1]

\* C30: the removal of a fading particle disposes only what that particle
\* alone owns (its material, its trail geometry, its trail material); the
\* sphere geometry shared by all particles, globalParticleGeo, is not
\* disposed while the component is mounted, that is while a particle that
\* uses it is in the list or can still be spawned.
C30_RemovalKeepsShared ==
  /\ [](phase = "mounted" => << "globalParticleGeo", 0 >> \notin disposed)
  /\ [][ removedIds' # removedIds
           => (disposed' \ disposed)
                \subseteq UNION { ParticleResources(id) :
                                    id \in removedIds' \ removedIds } ]_vars

====
